---- MODULE Spec2Model ----
(***************************************************************************)
(* Checkout automation of footlock_checkout_request.                       *)
(*                                                                         *)
(* One checkout object (FootlockerCheckout, ImprovedFootlockerCheckout,    *)
(* EnhancedFootlockerCheckout or FootlockerOrderPlacer) is driven by its   *)
(* main()/orchestrator.  Every executor is a function of the object's      *)
(* fields (cart_id, guest_id) and of the responses the server gives to     *)
(* the requests it sends; the server is the environment, so each response  *)
(* is drawn from a small set.                                              *)
(***************************************************************************)
EXTENDS Integers, Sequences, FiniteSets, TLC

VARIABLES
    flow,       \* which driver runs on the object: "none" before a driver starts
    pc,         \* position of the driver
    cart_id,    \* self.cart_id   ("None" or an identifier)
    guest_id,   \* self.guest_id  ("None" or an identifier)
    size,       \* the size argument of the running driver
    sku,        \* the sku argument of the running driver
    verified,   \* complete_order_flow's local verified_address
    available_sizes, \* product_data['available_sizes'] in quick_add_and_checkout
    result,     \* the driver's return value: "running", "True", "False"
    calls,      \* history: the executor invocations so far, oldest first
    lastCart,   \* history: last non-null cartId in a response an executor read it from
    lastGuest,  \* history: last non-null user id in a response an executor read it from
    lastDecision, \* history: the decision field of the verification response read
    allMocked,  \* history: every exchange so far answered 2xx with a cart object CART-1
    user_agent, \* self.session.headers['User-Agent'] as _setup_session left it
    args,       \* the arguments of a helper function called on its own
    ret         \* what that call returned ("-" before it returns)

vars == <<flow, pc, cart_id, guest_id, size, sku, verified, available_sizes, result, calls,
          lastCart, lastGuest, lastDecision, allMocked, user_agent, args, ret>>

-----------------------------------------------------------------------------
(* Bounds of the environment.                                              *)

\* upper end of the identifiers CART-1..CART-n / G-1..G-n the server hands out
MaxIds == 2
\* longest size list in a product payload
MaxSizes == 2

CartIdAt(i) == IF i = 1 THEN "CART-1" ELSE IF i = 2 THEN "CART-2" ELSE "CART-3"
GuestIdAt(i) == IF i = 1 THEN "G-1" ELSE IF i = 2 THEN "G-2" ELSE "G-3"
ServerCartIds == {CartIdAt(i) : i \in 1..(IF MaxIds < 3 THEN MaxIds ELSE 3)}
ServerGuestIds == {GuestIdAt(i) : i \in 1..(IF MaxIds < 3 THEN MaxIds ELSE 3)}

\* sizes a caller may ask for and a payload may list
SizeIds == {"04.5", "05.0"}

\* the skus of config.PRODUCTS
Skus == {"H7980100", "S001AS9"}

\* what input().strip() may return for a size or a sku: the prompt accepts
\* an empty line
TypedSizes == SizeIds \cup {""}
TypedSkus == Skus \cup {""}

(* An HTTP exchange.  status 0 stands for a transport fault: the requests   *)
(* call raises instead of returning a response.                            *)
Statuses == {0, 200, 201, 204, 403, 500}

\* the exceptions of requests a transport fault raises
TransportFaults == {"Timeout", "ConnectionError"}

(* A JSON field is "absent", "null" or carries a value.                    *)
(* json   : "bad" when response.json() raises, "obj" for a JSON object     *)
(* other  : the object has keys besides the ones modelled                  *)
(* user   : "absent", "null", "noid" (an object without a usable id) or id *)
(* tp     : totalPriceWithTax: "absent", "null" or "obj"                   *)
(* vo     : variantOptions: "absent" or "obj"; sizes: its size list        *)
(* stock of a size entry: -1 when the entry has no stock key               *)
(* fault  : the exception raised when status is 0, "none" otherwise        *)
Plain ==
    [status |-> 200, json |-> "obj", other |-> TRUE, cartId |-> "absent",
     user |-> "absent", tp |-> "absent", vo |-> "absent", sizes |-> << >>,
     decision |-> "absent", suggested |-> "absent", orderId |-> "absent",
     fault |-> "none"]

EmptyObject == [Plain EXCEPT !.other = FALSE]

\* response.json() raises
Malformed == [EmptyObject EXCEPT !.json = "bad"]

\* responses whose body is never read: any status other than the accepted one,
\* and the exchanges that end in a transport fault
Rejections ==
    {[EmptyObject EXCEPT !.status = s] : s \in Statuses \ {0, 200}}
    \cup {[EmptyObject EXCEPT !.status = 0, !.fault = f] : f \in TransportFaults}

\* bool(dict): an empty dict is falsy
Truthy(r) ==
    \/ r.other
    \/ r.cartId # "absent"
    \/ r.user # "absent"
    \/ r.tp # "absent"
    \/ r.vo # "absent"
    \/ r.decision # "absent"
    \/ r.suggested # "absent"
    \/ r.orderId # "absent"

\* dict.get(key) of a field: None when the key is absent or null
Get(field) == IF field \in {"absent", "null"} THEN "None" ELSE field

\* a 2xx answer carrying a cart object with cartId CART-1 (and an order id),
\* none of whose fields is null
Cart1Mocks ==
    {[Plain EXCEPT !.status = s, !.cartId = "CART-1", !.orderId = o] :
        s \in {200, 201, 204}, o \in {"absent", "ORD-1"}}

IsCart1Mock(r) ==
    /\ r.status \in 200..299 /\ r.json = "obj" /\ r.cartId = "CART-1"
    /\ r.user # "null" /\ r.tp # "null"

\* responses of the endpoints whose body is not interpreted beyond emptiness
StatusResponses == Rejections \cup {Plain, EmptyObject, Malformed} \cup Cart1Mocks

\* responses of cart/add
CartAddResponses ==
    Rejections \cup {Malformed, EmptyObject} \cup Cart1Mocks
    \cup {[EmptyObject EXCEPT !.status = 201]}
    \cup {[Plain EXCEPT !.status = s, !.cartId = c] :
            s \in {200, 201}, c \in {"absent", "null"} \cup ServerCartIds}

\* responses of cart/getUpdatedCart
CartResponses ==
    Rejections \cup {Malformed, EmptyObject} \cup Cart1Mocks
    \cup {[Plain EXCEPT !.cartId = c, !.user = u, !.tp = t] :
            c \in {"absent", "null"} \cup ServerCartIds,
            u \in {"absent", "null", "noid"} \cup ServerGuestIds,
            t \in {"obj", "null"}}

\* size entries of a product payload and the lists made of them
SizeEntries == [id : SizeIds, stock : {-1, 0, 3}]
SizeLists == UNION {[1..n -> SizeEntries] : n \in 0..MaxSizes}

\* responses of product-core/v1/pdp/sku/<sku> as check_product_availability reads them
ProductResponses ==
    Rejections \cup {Malformed, EmptyObject, [Plain EXCEPT !.vo = "null"]} \cup Cart1Mocks
    \cup {[Plain EXCEPT !.vo = "obj", !.sizes = l] : l \in SizeLists}

\* responses of address-verification/v0/address/verification
\* suggested: "absent", "empty" ([]), "addr" (a usable first entry) or
\* "addrNullRegion" (a first entry whose region is null)
VerifyResponses ==
    Rejections \cup {Malformed, EmptyObject} \cup Cart1Mocks
    \cup {[Plain EXCEPT !.decision = d, !.suggested = a] :
            d \in {"absent", "Accepted", "accepted", "Rejected"},
            a \in {"absent", "empty", "addr", "addrNullRegion"}}

\* responses of checkout/placeorder
OrderResponses ==
    Rejections \cup {Malformed, EmptyObject} \cup Cart1Mocks
    \cup {[Plain EXCEPT !.orderId = o, !.cartId = c] :
            o \in {"absent", "ORD-1"}, c \in {"absent"} \cup ServerCartIds}

-----------------------------------------------------------------------------
(* What an executor invocation did: its return value's truthiness, the     *)
(* fields it leaves, the number of exchanges it performed (nested          *)
(* executors included), the status of its last exchange, the exception     *)
(* its try block raised ("none" when it raised none), whether that         *)
(* exception left the executor, the body of the response to its own        *)
(* request ("obj", "{}", "bad", or "-" when none arrived) and the cartId   *)
(* of that body once response.json() has returned it ("-" before).         *)
Eff(ok, cart, guest, nx, st) ==
    [ok |-> ok, cart |-> cart, guest |-> guest, nx |-> nx, st |-> st, out |-> "-",
     exc |-> "none", esc |-> FALSE, body |-> "-", rcart |-> "-"]

\* the try block raised exc after it had assigned cart and guest: no value is
\* returned and the exception is on its way out
Raise(exc, cart, guest, nx, st) ==
    [Eff(FALSE, cart, guest, nx, st) EXCEPT !.exc = exc, !.esc = TRUE]

\* variant: only the exceptions of the requests library are handled
except_RequestException(e) ==
    IF e.exc \in TransportFaults THEN [e EXCEPT !.esc = FALSE] ELSE e

\* except Exception as e: the handler logs e and returns the failure value
\* (False, None or {}), whatever was raised
except_Exception(e) == [e EXCEPT !.esc = FALSE]

\* the body of a response: "bad" when it is not JSON, "{}" for the empty
\* object, "obj" for an object with at least one key
Body(r) == IF r.json = "obj" /\ ~Truthy(r) THEN "{}" ELSE r.json

\* session.get / session.post: raises when no response arrives
Sent(r, c, g, nx, e) ==
    IF r.status = 0 THEN Raise(r.fault, c, g, nx, r.status)
    ELSE [e EXCEPT !.body = Body(r)]

\* response.json(): raises when the body is not JSON
Json(r, c, g, nx, e) ==
    IF r.json = "bad"
    THEN [Raise("JSONDecodeError", c, g, nx, r.status) EXCEPT !.body = r.json]
    ELSE [e EXCEPT !.rcart = Get(r.cartId)]

\* the same effect, naming the object the executor returned
Returning(e, out) == [e EXCEPT !.out = out]

\* one entry of the invocation history.  lvl is "stage" for an executor the
\* driver invoked and "nested" for one invoked by another executor; own is
\* the number of requests the executor sent itself, nx - own the number sent
\* by the executor nested in it
Call(ex, lvl, e, own, arg) ==
    [ex |-> ex, lvl |-> lvl, ok |-> e.ok, nx |-> e.nx, own |-> own, st |-> e.st,
     arg |-> arg, exc |-> e.exc, esc |-> e.esc, body |-> e.body,
     rcart |-> e.rcart]

\* user_info.get('id') of a response's user object
UserId(r) == IF r.user = "noid" THEN "None" ELSE Get(r.user)

\* the history value of an identifier: replaced by val when the response
\* carrying it was read and val is not None
Seen(prev, read, val) == IF read /\ val # "None" THEN val ELSE prev

-----------------------------------------------------------------------------
(* FootlockerCheckout                                                      *)

FC_initialize_session(r, c, g) ==
    except_Exception(Sent(r, c, g, 1, Eff(r.status = 200, c, g, 1, r.status)))

FC_get_product_details(r, c, g) ==
    except_Exception(
        Sent(r, c, g, 1,
             IF r.status = 200
             THEN Json(r, c, g, 1, Eff(Truthy(r), c, g, 1, r.status))
             ELSE Eff(FALSE, c, g, 1, r.status)))

\* variant: the request is sent whatever get_product_details returned
FC_add_to_cart_unchecked(r1, r2, c, g) ==
    except_Exception(
        Sent(r2, c, g, 2,
             IF r2.status = 200
             THEN Json(r2, c, g, 2, Eff(TRUE, Get(r2.cartId), g, 2, r2.status))
             ELSE Eff(FALSE, c, g, 2, r2.status)))

FC_add_to_cart(r1, r2, c, g) ==
    except_Exception(
        IF ~FC_get_product_details(r1, c, g).ok
        THEN Eff(FALSE, c, g, 1, r1.status)
        ELSE Sent(r2, c, g, 2,
                  IF r2.status = 200
                  THEN Json(r2, c, g, 2, Eff(TRUE, Get(r2.cartId), g, 2, r2.status))
                  ELSE Eff(FALSE, c, g, 2, r2.status)))

\* cart_id is assigned before the log line that dereferences totalPriceWithTax
FC_get_updated_cart(r, c, g) ==
    except_Exception(
        Sent(r, c, g, 1,
             IF r.status = 200
             THEN Json(r, c, g, 1,
                       IF r.tp = "null"
                       THEN Raise("AttributeError", Get(r.cartId), g, 1, r.status)
                       ELSE Eff(Truthy(r), Get(r.cartId), g, 1, r.status))
             ELSE Eff(FALSE, c, g, 1, r.status)))

\* variant: cart_id is put back when the second fetch does not succeed
FC_checkout_as_guest_restoring(r1, r2, c, g) ==
    LET u == FC_get_updated_cart(r1, c, g) IN
    except_Exception(
        IF ~u.ok
        THEN Eff(FALSE, u.cart, u.guest, u.nx, u.st)
        ELSE Sent(r2, c, g, 2,
                  IF r2.status = 200
                  THEN Json(r2, c, g, 2,
                            IF r2.user = "null"
                            THEN Raise("AttributeError", c, g, 2, r2.status)
                            ELSE Eff(TRUE, u.cart, UserId(r2), 2, r2.status))
                  ELSE Eff(FALSE, c, g, 2, r2.status)))

\* get_updated_cart first, which assigns cart_id; then the same endpoint once
\* more, from whose user object guest_id is assigned
FC_checkout_as_guest(r1, r2, c, g) ==
    LET u == FC_get_updated_cart(r1, c, g) IN
    except_Exception(
        IF ~u.ok
        THEN Eff(FALSE, u.cart, u.guest, u.nx, u.st)
        ELSE Sent(r2, u.cart, g, 2,
                  IF r2.status = 200
                  THEN Json(r2, u.cart, g, 2,
                            IF r2.user = "null"
                            THEN Raise("AttributeError", u.cart, g, 2, r2.status)
                            ELSE Eff(TRUE, u.cart, UserId(r2), 2, r2.status))
                  ELSE Eff(FALSE, u.cart, g, 2, r2.status)))

FC_submit_shipping_info(r, c, g) ==
    except_Exception(Sent(r, c, g, 1, Eff(r.status = 200, c, g, 1, r.status)))

\* variant: the request is sent a second time when the first attempt fails
FC_submit_payment_info_retry(r, c, g) ==
    except_Exception(
        Sent(r, c, g, 2,
             Eff(r.status = 200, c, g, IF r.status = 200 THEN 1 ELSE 2, r.status)))

FC_submit_payment_info(r, c, g) ==
    except_Exception(Sent(r, c, g, 1, Eff(r.status = 200, c, g, 1, r.status)))

FC_place_order(r, c, g) ==
    except_Exception(
        Sent(r, c, g, 1,
             IF r.status = 200
             THEN Json(r, c, g, 1, Eff(Truthy(r), c, g, 1, r.status))
             ELSE Eff(FALSE, c, g, 1, r.status)))

\* variant: the result of add_to_cart is not tested
complete_checkout_flow_unchecked(stage, ok) ==
    IF ~ok /\ stage # "add_to_cart" THEN "done"
    ELSE CASE stage = "initialize_session" -> "add_to_cart"
           [] stage = "add_to_cart" -> "checkout_as_guest"
           [] stage = "checkout_as_guest" -> "submit_shipping_info"
           [] stage = "submit_shipping_info" -> "submit_payment_info"
           [] stage = "submit_payment_info" -> "place_order"
           [] stage = "place_order" -> "done"

\* complete_checkout_flow: the stage after `stage`, given the stage's result
complete_checkout_flow(stage, ok) ==
    IF ~ok THEN "done"
    ELSE CASE stage = "initialize_session" -> "add_to_cart"
           [] stage = "add_to_cart" -> "checkout_as_guest"
           [] stage = "checkout_as_guest" -> "submit_shipping_info"
           [] stage = "submit_shipping_info" -> "submit_payment_info"
           [] stage = "submit_payment_info" -> "place_order"
           [] stage = "place_order" -> "done"

-----------------------------------------------------------------------------
(* ImprovedFootlockerCheckout                                              *)

\* the GET of the home page main() requires before it shows its menu
IM_test_connection(r, c, g) ==
    except_Exception(Sent(r, c, g, 1, Eff(r.status = 200, c, g, 1, r.status)))

IM_check_product_availability(r, c, g) ==
    except_Exception(
        Sent(r, c, g, 1,
             IF r.status = 200
             THEN Json(r, c, g, 1, Eff(Truthy(r), c, g, 1, r.status))
             ELSE IF r.status = 403
                  THEN Eff(FALSE, c, g, 1, r.status)
                  ELSE Eff(FALSE, c, g, 1, r.status)))

\* out = "input" when the 403 branch stops in get_fresh_cookies_interactive
IM_add_to_cart_v2(r1, r2, c, g) ==
    except_Exception(
        IF ~IM_check_product_availability(r1, c, g).ok
        THEN Eff(FALSE, c, g, 1, r1.status)
        ELSE Sent(r2, c, g, 2,
                  IF r2.status = 200
                  THEN Json(r2, c, g, 2, Eff(TRUE, Get(r2.cartId), g, 2, r2.status))
                  ELSE IF r2.status = 403
                       THEN Returning(Eff(FALSE, c, g, 2, r2.status), "input")
                       ELSE Eff(FALSE, c, g, 2, r2.status)))

IM_get_cart_info(r, c, g) ==
    except_Exception(
        Sent(r, c, g, 1,
             IF r.status = 200
             THEN Json(r, c, g, 1, Eff(Truthy(r), c, g, 1, r.status))
             ELSE Eff(FALSE, c, g, 1, r.status)))

-----------------------------------------------------------------------------
(* EnhancedFootlockerCheckout                                              *)

\* [size['id'] for size in sizes if size.get('stock', 0) > 0]
RECURSIVE AvailableSizes(_)
AvailableSizes(sizes) ==
    IF sizes = << >> THEN << >>
    ELSE (IF Head(sizes).stock > 0 THEN <<Head(sizes).id>> ELSE << >>)
         \o AvailableSizes(Tail(sizes))

\* the payload gets the key available_sizes before it is returned, so it is
\* never an empty dict
EC_check_product_availability(r, c, g) ==
    except_Exception(
        Sent(r, c, g, 1,
             IF r.status = 200
             THEN Json(r, c, g, 1,
                       IF r.vo = "null"
                       THEN Raise("AttributeError", c, g, 1, r.status)
                       ELSE Eff(TRUE, c, g, 1, r.status))
             ELSE Eff(FALSE, c, g, 1, r.status)))

EC_add_to_cart_real(r, c, g) ==
    except_Exception(
        Sent(r, c, g, 1,
             IF r.status \in {200, 201}
             THEN Json(r, c, g, 1, Eff(Truthy(r), Get(r.cartId), g, 1, r.status))
             ELSE Eff(FALSE, c, g, 1, r.status)))

\* cart_id is assigned, then the user object is dereferenced, then guest_id
\* is assigned, then the log line dereferences totalPriceWithTax
EC_get_cart_status(r, c, g) ==
    except_Exception(
        Sent(r, c, g, 1,
             IF r.status = 200
             THEN Json(r, c, g, 1,
                       IF r.user = "null"
                       THEN Raise("AttributeError", Get(r.cartId), g, 1, r.status)
                       ELSE IF r.tp = "null"
                            THEN Raise("AttributeError", Get(r.cartId), UserId(r), 1,
                                       r.status)
                            ELSE Eff(Truthy(r), Get(r.cartId), UserId(r), 1, r.status))
             ELSE Eff(FALSE, c, g, 1, r.status)))

EC_set_shipping_address(r, c, g) ==
    except_Exception(Sent(r, c, g, 1, Eff(r.status = 200, c, g, 1, r.status)))

\* variant: the shipping address is set right after the product is added
quick_add_and_checkout_no_status(stage, ok) ==
    IF ~ok THEN "done"
    ELSE CASE stage = "config.PRODUCTS" -> "check_product_availability"
           [] stage = "check_product_availability" -> "add_to_cart_real"
           [] stage = "add_to_cart_real" -> "set_shipping_address"
           [] stage = "get_cart_status" -> "set_shipping_address"
           [] stage = "set_shipping_address" -> "print_cart_summary"

\* quick_add_and_checkout: the stage after `stage`, given the stage's result
quick_add_and_checkout(stage, ok) ==
    IF ~ok THEN "done"
    ELSE CASE stage = "config.PRODUCTS" -> "check_product_availability"
           [] stage = "check_product_availability" -> "add_to_cart_real"
           [] stage = "add_to_cart_real" -> "get_cart_status"
           [] stage = "get_cart_status" -> "set_shipping_address"
           [] stage = "set_shipping_address" -> "print_cart_summary"

-----------------------------------------------------------------------------
(* FootlockerOrderPlacer                                                   *)

\* variant: a request that failed is sent once more before the executor
\* returns
OP_submit_user_info_again(r, c, g) ==
    except_Exception(
        Sent(r, c, g, 2,
             Eff(r.status = 200, c, g, IF r.status = 200 THEN 1 ELSE 2, r.status)))

OP_submit_user_info(r, c, g) ==
    except_Exception(Sent(r, c, g, 1, Eff(r.status = 200, c, g, 1, r.status)))

\* variant: the decision is compared without regard to case
OP_verify_shipping_address_anycase(r, c, g) ==
    LET body ==
          Sent(r, c, g, 1,
               IF r.status = 200
               THEN Json(r, c, g, 1,
                         IF r.decision \in {"Accepted", "accepted"}
                            /\ r.suggested \in {"addr", "addrNullRegion"}
                         THEN Returning(Eff(TRUE, c, g, 1, r.status),
                                        IF r.suggested = "addr" THEN "suggested[0]"
                                        ELSE "suggested[0]:region=null")
                         ELSE Returning(Eff(Truthy(r), c, g, 1, r.status),
                                        "verification_result"))
               ELSE Returning(Eff(FALSE, c, g, 1, r.status), "None"))
    IN  except_Exception(IF body.exc = "none" THEN body ELSE Returning(body, "None"))

\* out names the object returned: the first suggested address, the whole
\* verification response, or None
OP_verify_shipping_address(r, c, g) ==
    LET body ==
          Sent(r, c, g, 1,
               IF r.status = 200
               THEN Json(r, c, g, 1,
                         IF r.decision = "Accepted"
                            /\ r.suggested \in {"addr", "addrNullRegion"}
                         THEN Returning(Eff(TRUE, c, g, 1, r.status),
                                        IF r.suggested = "addr" THEN "suggested[0]"
                                        ELSE "suggested[0]:region=null")
                         ELSE Returning(Eff(Truthy(r), c, g, 1, r.status),
                                        "verification_result"))
               ELSE Returning(Eff(FALSE, c, g, 1, r.status), "None"))
    IN  except_Exception(IF body.exc = "none" THEN body ELSE Returning(body, "None"))

\* verified_address.get("region", {}).get(...) raises before the request is
\* sent when the region is null
OP_set_shipping_address(va, r, c, g) ==
    except_Exception(
        IF va = "suggested[0]:region=null"
        THEN Raise("AttributeError", c, g, 0, -1)
        ELSE Sent(r, c, g, 1, Eff(r.status = 200, c, g, 1, r.status)))

\* variant: the cartId of the parsed body is stored in self.cart_id
OP_get_updated_cart_with_shipping_storing(r, c, g) ==
    LET body ==
          Sent(r, c, g, 1,
               IF r.status = 200
               THEN Json(r, c, g, 1,
                         Returning(Eff(Truthy(r), Get(r.cartId), g, 1, r.status),
                                   "cart_data"))
               ELSE Returning(Eff(FALSE, c, g, 1, r.status), "None"))
    IN  except_Exception(IF body.exc = "none" THEN body ELSE Returning(body, "None"))

\* out names the object returned: the parsed body (cart_data) or None
OP_get_updated_cart_with_shipping(r, c, g) ==
    LET body ==
          Sent(r, c, g, 1,
               IF r.status = 200
               THEN Json(r, c, g, 1,
                         Returning(Eff(Truthy(r), c, g, 1, r.status), "cart_data"))
               ELSE Returning(Eff(FALSE, c, g, 1, r.status), "None"))
    IN  except_Exception(IF body.exc = "none" THEN body ELSE Returning(body, "None"))

\* variant: payment_info.get raises while the payload is built
OP_submit_payment_info_raising(c, g) ==
    except_Exception(Raise("AttributeError", c, g, 0, -1))

\* placeholder: the payload is built, nothing is sent
OP_submit_payment_info(c, g) ==
    except_Exception(Eff(TRUE, c, g, 0, -1))

\* the payload place_final_order builds
OP_place_final_order_payload(c) ==
    [cartId |-> c, termsAccepted |-> TRUE, marketingOptIn |-> FALSE]

\* placeholder: returns the mock confirmation TEST-ORDER-12345
OP_place_final_order(c, g) ==
    except_Exception(Returning(Eff(TRUE, c, g, 0, -1), "TEST-ORDER-12345"))

\* variant: the cart is not fetched again after the shipping address is set
complete_order_flow_skipping(stage, ok) ==
    IF ~ok THEN "done"
    ELSE CASE stage = "submit_user_info" -> "verify_shipping_address"
           [] stage = "verify_shipping_address" -> "set_shipping_address"
           [] stage = "set_shipping_address" -> "submit_payment_info"
           [] stage = "get_updated_cart_with_shipping" -> "submit_payment_info"
           [] stage = "submit_payment_info" -> "place_final_order"
           [] stage = "place_final_order" -> "done"

\* complete_order_flow: the stage after `stage`, given the stage's result
complete_order_flow(stage, ok) ==
    IF ~ok THEN "done"
    ELSE CASE stage = "submit_user_info" -> "verify_shipping_address"
           [] stage = "verify_shipping_address" -> "set_shipping_address"
           [] stage = "set_shipping_address" -> "get_updated_cart_with_shipping"
           [] stage = "get_updated_cart_with_shipping" -> "submit_payment_info"
           [] stage = "submit_payment_info" -> "place_final_order"
           [] stage = "place_final_order" -> "done"

-----------------------------------------------------------------------------
(* The drivers.                                                            *)

Init ==
    /\ flow = "none"
    /\ pc = "main"
    /\ cart_id = "None"
    /\ guest_id = "None"
    /\ size = "-"
    /\ sku = "-"
    /\ verified = "None"
    /\ available_sizes = << >>
    /\ result = "running"
    /\ calls = << >>
    /\ lastCart = "None"
    /\ lastGuest = "None"
    /\ lastDecision = "none"
    /\ allMocked = TRUE
    /\ user_agent = "-"
    /\ args = << >>
    /\ ret = "-"

\* the body was parsed: the status is the accepted one and json() returned
Read(r) == r.status = 200 /\ r.json = "obj"

\* variant: the driver returns True when it has no stage left to run
Returned_at_end(ok, next) ==
    IF next \in {"done", "print_cart_summary", "get_cart_info"} THEN "True"
    ELSE IF ~ok THEN "False"
    ELSE "running"

\* the value the driver returns once the stage's result sends it to `next`
Returned(ok, next) ==
    IF ~ok THEN "False"
    ELSE IF next \in {"done", "print_cart_summary", "get_cart_info"} THEN "True"
    ELSE "running"

\* a stage of a driver ran with effect e and logged `entries`; mocked tells
\* whether every response it consumed was a Cart1Mocks one
Stage(e, entries, next, mocked) ==
    /\ cart_id' = e.cart
    /\ guest_id' = e.guest
    /\ calls' = calls \o entries
    /\ pc' = next
    /\ result' = Returned(e.ok, next)
    /\ allMocked' = (allMocked /\ mocked)

\* the payment_info dictionary main() passes to complete_checkout_flow
payment_info ==
    [paymentType |-> "CREDITCARD", cardNumber |-> "4111111111111111",
     expiryMonth |-> "12", expiryYear |-> "2025", cvv |-> "123",
     nameOnCard |-> "John Doe"]

\* the body of the POST to checkout/payment: json=payment_info, the
\* argument as the caller gave it
FC_payment_json(info) == info

\* config.py as the operator of the program edited it: with or without the
\* USER_AGENT attribute
Configs == {"USER_AGENT", "no USER_AGENT"}

\* FootlockerCheckout._setup_session: the user agent is a literal of the code
FC_setup_session == "literal"

\* ImprovedFootlockerCheckout._setup_session and FootlockerOrderPlacer.
\* _setup_session: the cookies are loaded, then headers.update() reads
\* config.USER_AGENT; the AttributeError of a config without it is caught and
\* logged, the headers are left as requests.Session() made them and the
\* constructor returns normally
IM_setup_session(config) ==
    IF config = "USER_AGENT" THEN "config.USER_AGENT" ELSE "python-requests"

OP_setup_session(config) ==
    IF config = "USER_AGENT" THEN "config.USER_AGENT" ELSE "python-requests"

\* EnhancedFootlockerCheckout._setup_session: getattr(config, 'USER_AGENT',
\* <a literal>) falls back to the literal
EC_setup_session(config) ==
    IF config = "USER_AGENT" THEN "config.USER_AGENT" ELSE "getattr default"

\* main(), choice 1 of footlocker_checkout.py
FC_main ==
    /\ flow = "none"
    /\ flow' = "FC"
    /\ pc' = "initialize_session"
    /\ size' \in SizeIds
    /\ sku' \in Skus
    /\ user_agent' = FC_setup_session
    /\ UNCHANGED <<cart_id, guest_id, verified, available_sizes, result, calls,
                   lastCart, lastGuest, lastDecision, allMocked, args, ret>>

FC_step_initialize_session ==
    /\ flow = "FC" /\ pc = "initialize_session"
    /\ \E r \in StatusResponses :
         LET e == FC_initialize_session(r, cart_id, guest_id) IN
         Stage(e, <<Call("initialize_session", "stage", e, e.nx, "-")>>,
               complete_checkout_flow("initialize_session", e.ok), IsCart1Mock(r))
    /\ UNCHANGED <<flow, size, sku, verified, available_sizes, lastCart, lastGuest,
                   lastDecision, user_agent, args, ret>>

FC_step_add_to_cart ==
    /\ flow = "FC" /\ pc = "add_to_cart"
    /\ \E r1 \in StatusResponses, r2 \in CartAddResponses :
         LET p == FC_get_product_details(r1, cart_id, guest_id)
             e == FC_add_to_cart(r1, r2, cart_id, guest_id) IN
         /\ Stage(e, <<Call("get_product_details", "nested", p, p.nx, sku),
                       Call("add_to_cart", "stage", e, e.nx - p.nx, sku)>>,
                  complete_checkout_flow("add_to_cart", e.ok),
                  IsCart1Mock(r1) /\ (p.ok => IsCart1Mock(r2)))
         /\ lastCart' = Seen(lastCart, p.ok /\ Read(r2), Get(r2.cartId))
    /\ UNCHANGED <<flow, size, sku, verified, available_sizes, lastGuest, lastDecision, user_agent, args, ret>>

FC_step_checkout_as_guest ==
    /\ flow = "FC" /\ pc = "checkout_as_guest"
    /\ \E r1 \in CartResponses, r2 \in CartResponses :
         LET u == FC_get_updated_cart(r1, cart_id, guest_id)
             e == FC_checkout_as_guest(r1, r2, cart_id, guest_id) IN
         /\ Stage(e, <<Call("get_updated_cart", "nested", u, u.nx, "-"),
                       Call("checkout_as_guest", "stage", e, e.nx - u.nx, "-")>>,
                  complete_checkout_flow("checkout_as_guest", e.ok),
                  IsCart1Mock(r1) /\ (u.ok => IsCart1Mock(r2)))
         /\ lastCart' = Seen(lastCart, Read(r1), Get(r1.cartId))
         /\ lastGuest' = Seen(lastGuest, e.ok, UserId(r2))
    /\ UNCHANGED <<flow, size, sku, verified, available_sizes, lastDecision, user_agent, args, ret>>

FC_step_submit_shipping_info ==
    /\ flow = "FC" /\ pc = "submit_shipping_info"
    /\ \E r \in StatusResponses :
         LET e == FC_submit_shipping_info(r, cart_id, guest_id) IN
         Stage(e, <<Call("submit_shipping_info", "stage", e, e.nx, "shipping_info")>>,
               complete_checkout_flow("submit_shipping_info", e.ok), IsCart1Mock(r))
    /\ UNCHANGED <<flow, size, sku, verified, available_sizes, lastCart, lastGuest,
                   lastDecision, user_agent, args, ret>>

FC_step_submit_payment_info ==
    /\ flow = "FC" /\ pc = "submit_payment_info"
    /\ \E r \in StatusResponses :
         LET e == FC_submit_payment_info(r, cart_id, guest_id) IN
         Stage(e, <<Call("submit_payment_info", "stage", e, e.nx, "payment_info")>>,
               complete_checkout_flow("submit_payment_info", e.ok), IsCart1Mock(r))
    /\ UNCHANGED <<flow, size, sku, verified, available_sizes, lastCart, lastGuest,
                   lastDecision, user_agent, args, ret>>

FC_step_place_order ==
    /\ flow = "FC" /\ pc = "place_order"
    /\ \E r \in OrderResponses :
         LET e == FC_place_order(r, cart_id, guest_id) IN
         Stage(e, <<Call("place_order", "stage", e, e.nx, "-")>>,
               complete_checkout_flow("place_order", e.ok), IsCart1Mock(r))
    /\ UNCHANGED <<flow, size, sku, verified, available_sizes, lastCart, lastGuest,
                   lastDecision, user_agent, args, ret>>

\* main() of the improved tool, choice 2: test the connection, add to cart,
\* then show the cart
IM_main ==
    /\ flow = "none"
    /\ flow' = "IM"
    /\ pc' = "test_connection"
    /\ \E config \in Configs : user_agent' = IM_setup_session(config)
    /\ UNCHANGED <<cart_id, guest_id, size, sku, verified, available_sizes, result,
                   calls, lastCart, lastGuest, lastDecision, allMocked, args, ret>>

\* main() returns when the connection test fails; otherwise it shows the
\* menu and, for choice 2, reads the sku and the size
IM_step_test_connection ==
    /\ flow = "IM" /\ pc = "test_connection"
    /\ \E r \in StatusResponses :
         LET e == IM_test_connection(r, cart_id, guest_id) IN
         /\ Stage(e, <<Call("test_connection", "stage", e, e.nx, "-")>>,
                  IF e.ok THEN "add_to_cart_v2" ELSE "done", IsCart1Mock(r))
         /\ IF e.ok THEN size' \in TypedSizes /\ sku' \in TypedSkus
            ELSE size' = size /\ sku' = sku
    /\ UNCHANGED <<flow, verified, available_sizes, lastCart, lastGuest,
                   lastDecision, user_agent, args, ret>>

\* on a 403 from cart/add the executor stops in get_fresh_cookies_interactive,
\* waiting for input(), before it returns False
IM_step_add_to_cart_v2 ==
    /\ flow = "IM" /\ pc = "add_to_cart_v2"
    /\ \E r1 \in StatusResponses, r2 \in CartAddResponses :
         LET p == IM_check_product_availability(r1, cart_id, guest_id)
             e == IM_add_to_cart_v2(r1, r2, cart_id, guest_id)
             next == IF e.out = "input" THEN "get_fresh_cookies_interactive"
                     ELSE IF e.ok THEN "get_cart_info" ELSE "done" IN
         /\ cart_id' = e.cart
         /\ guest_id' = e.guest
         /\ calls' = calls \o <<Call("check_product_availability", "nested", p, p.nx, sku),
                                 Call("add_to_cart_v2", "stage", e, e.nx - p.nx, sku)>>
         /\ pc' = next
         /\ result' = IF e.out = "input" THEN "running" ELSE Returned(e.ok, next)
         /\ lastCart' = Seen(lastCart, p.ok /\ Read(r2), Get(r2.cartId))
         /\ allMocked' = (allMocked /\ IsCart1Mock(r1) /\ (p.ok => IsCart1Mock(r2)))
    /\ UNCHANGED <<flow, size, sku, verified, available_sizes, lastGuest, lastDecision, user_agent, args, ret>>

\* the user presses Enter; add_to_cart_v2 returns False
IM_get_fresh_cookies_interactive ==
    /\ flow = "IM" /\ pc = "get_fresh_cookies_interactive"
    /\ pc' = "done"
    /\ result' = "False"
    /\ UNCHANGED <<flow, cart_id, guest_id, size, sku, verified, available_sizes, calls,
                   lastCart, lastGuest, lastDecision, allMocked, user_agent, args, ret>>

IM_step_get_cart_info ==
    /\ flow = "IM" /\ pc = "get_cart_info"
    /\ \E r \in CartResponses :
         LET e == IM_get_cart_info(r, cart_id, guest_id) IN
         /\ calls' = calls \o <<Call("get_cart_info", "summary", e, e.nx, "-")>>
         /\ allMocked' = (allMocked /\ IsCart1Mock(r))
    /\ pc' = "done"
    /\ UNCHANGED <<flow, cart_id, guest_id, size, sku, verified, available_sizes, result,
                   lastCart, lastGuest, lastDecision, user_agent, args, ret>>

\* main(), choice 1 of the enhanced tool
EC_main ==
    /\ flow = "none"
    /\ flow' = "EC"
    /\ pc' = "config.PRODUCTS"
    /\ size' \in TypedSizes
    /\ \E config \in Configs : user_agent' = EC_setup_session(config)
    /\ UNCHANGED <<cart_id, guest_id, sku, verified, available_sizes, result, calls,
                   lastCart, lastGuest, lastDecision, allMocked, args, ret>>

\* product_key not in config.PRODUCTS: return False before any request;
\* otherwise sku = product_info["sku"]
EC_step_lookup ==
    /\ flow = "EC" /\ pc = "config.PRODUCTS"
    /\ \E known \in BOOLEAN :
         /\ pc' = quick_add_and_checkout("config.PRODUCTS", known)
         /\ result' = Returned(known, pc')
         /\ IF known THEN sku' \in Skus ELSE sku' = sku
    /\ UNCHANGED <<flow, cart_id, guest_id, size, verified, available_sizes, calls,
                   lastCart, lastGuest, lastDecision, allMocked, user_agent, args, ret>>

EC_step_check_product_availability ==
    /\ flow = "EC" /\ pc = "check_product_availability"
    /\ \E r \in ProductResponses :
         LET e == EC_check_product_availability(r, cart_id, guest_id) IN
         /\ Stage(e, <<Call("check_product_availability", "stage", e, e.nx, sku)>>,
                  quick_add_and_checkout("check_product_availability", e.ok),
                  IsCart1Mock(r))
         /\ available_sizes' = IF e.ok THEN AvailableSizes(r.sizes) ELSE available_sizes
    /\ UNCHANGED <<flow, size, sku, verified, lastCart, lastGuest, lastDecision, user_agent, args, ret>>

EC_step_add_to_cart_real ==
    /\ flow = "EC" /\ pc = "add_to_cart_real"
    /\ \E r \in CartAddResponses :
         LET e == EC_add_to_cart_real(r, cart_id, guest_id) IN
         /\ Stage(e, <<Call("add_to_cart_real", "stage", e, e.nx, sku)>>,
                  quick_add_and_checkout("add_to_cart_real", e.ok), IsCart1Mock(r))
         /\ lastCart' = Seen(lastCart, r.status \in {200, 201} /\ r.json = "obj",
                             Get(r.cartId))
    /\ UNCHANGED <<flow, size, sku, verified, available_sizes, lastGuest, lastDecision, user_agent, args, ret>>

EC_step_get_cart_status ==
    /\ flow = "EC" /\ pc = "get_cart_status"
    /\ \E r \in CartResponses :
         LET e == EC_get_cart_status(r, cart_id, guest_id) IN
         /\ Stage(e, <<Call("get_cart_status", "stage", e, e.nx, "-")>>,
                  quick_add_and_checkout("get_cart_status", e.ok), IsCart1Mock(r))
         /\ lastCart' = Seen(lastCart, Read(r), Get(r.cartId))
         /\ lastGuest' = Seen(lastGuest, Read(r) /\ r.user # "null", UserId(r))
    /\ UNCHANGED <<flow, size, sku, verified, available_sizes, lastDecision, user_agent, args, ret>>

EC_step_set_shipping_address ==
    /\ flow = "EC" /\ pc = "set_shipping_address"
    /\ \E r \in StatusResponses :
         LET e == EC_set_shipping_address(r, cart_id, guest_id) IN
         Stage(e, <<Call("set_shipping_address", "stage", e, e.nx, "config.SHIPPING_INFO")>>,
               quick_add_and_checkout("set_shipping_address", e.ok), IsCart1Mock(r))
    /\ UNCHANGED <<flow, size, sku, verified, available_sizes, lastCart, lastGuest,
                   lastDecision, user_agent, args, ret>>

\* main() prints the cart after a successful quick_add_and_checkout
EC_print_cart_summary ==
    /\ flow = "EC" /\ pc = "print_cart_summary"
    /\ \E r \in CartResponses :
         LET e == EC_get_cart_status(r, cart_id, guest_id) IN
         /\ cart_id' = e.cart
         /\ guest_id' = e.guest
         /\ calls' = calls \o <<Call("get_cart_status", "summary", e, e.nx, "-")>>
         /\ lastCart' = Seen(lastCart, Read(r), Get(r.cartId))
         /\ lastGuest' = Seen(lastGuest, Read(r) /\ r.user # "null", UserId(r))
         /\ allMocked' = (allMocked /\ IsCart1Mock(r))
    /\ pc' = "done"
    /\ UNCHANGED <<flow, size, sku, verified, available_sizes, result, lastDecision, user_agent, args, ret>>

\* main(), choice 1 of order_placer.py
OP_main ==
    /\ flow = "none"
    /\ flow' = "OP"
    /\ pc' = "submit_user_info"
    /\ \E config \in Configs : user_agent' = OP_setup_session(config)
    /\ UNCHANGED <<cart_id, guest_id, size, sku, verified, available_sizes, result, calls,
                   lastCart, lastGuest, lastDecision, allMocked, args, ret>>

OP_step_submit_user_info ==
    /\ flow = "OP" /\ pc = "submit_user_info"
    /\ \E r \in StatusResponses :
         LET e == OP_submit_user_info(r, cart_id, guest_id) IN
         Stage(e, <<Call("submit_user_info", "stage", e, e.nx, "user_info")>>,
               complete_order_flow("submit_user_info", e.ok), IsCart1Mock(r))
    /\ UNCHANGED <<flow, size, sku, verified, available_sizes, lastCart, lastGuest,
                   lastDecision, user_agent, args, ret>>

OP_step_verify_shipping_address ==
    /\ flow = "OP" /\ pc = "verify_shipping_address"
    /\ \E r \in VerifyResponses :
         LET e == OP_verify_shipping_address(r, cart_id, guest_id) IN
         /\ Stage(e, <<Call("verify_shipping_address", "stage", e, e.nx,
                            "shipping_address")>>,
                  complete_order_flow("verify_shipping_address", e.ok), IsCart1Mock(r))
         /\ verified' = e.out
         /\ lastDecision' = IF Read(r) THEN r.decision ELSE lastDecision
    /\ UNCHANGED <<flow, size, sku, available_sizes, lastCart, lastGuest, user_agent, args, ret>>

OP_step_set_shipping_address ==
    /\ flow = "OP" /\ pc = "set_shipping_address"
    /\ \E r \in StatusResponses :
         LET e == OP_set_shipping_address(verified, r, cart_id, guest_id) IN
         Stage(e, <<Call("set_shipping_address", "stage", e, e.nx, verified)>>,
               complete_order_flow("set_shipping_address", e.ok),
               e.nx = 0 \/ IsCart1Mock(r))
    /\ UNCHANGED <<flow, size, sku, verified, available_sizes, lastCart, lastGuest,
                   lastDecision, user_agent, args, ret>>

OP_step_get_updated_cart_with_shipping ==
    /\ flow = "OP" /\ pc = "get_updated_cart_with_shipping"
    /\ \E r \in CartResponses :
         LET e == OP_get_updated_cart_with_shipping(r, cart_id, guest_id) IN
         Stage(e, <<Call("get_updated_cart_with_shipping", "stage", e, e.nx, "-")>>,
               complete_order_flow("get_updated_cart_with_shipping", e.ok),
               IsCart1Mock(r))
    /\ UNCHANGED <<flow, size, sku, verified, available_sizes, lastCart, lastGuest,
                   lastDecision, user_agent, args, ret>>

OP_step_submit_payment_info ==
    /\ flow = "OP" /\ pc = "submit_payment_info"
    /\ LET e == OP_submit_payment_info(cart_id, guest_id) IN
       Stage(e, <<Call("submit_payment_info", "stage", e, e.nx, "payment_info")>>,
             complete_order_flow("submit_payment_info", e.ok), TRUE)
    /\ UNCHANGED <<flow, size, sku, verified, available_sizes, lastCart, lastGuest,
                   lastDecision, user_agent, args, ret>>

OP_step_place_final_order ==
    /\ flow = "OP" /\ pc = "place_final_order"
    /\ LET e == OP_place_final_order(cart_id, guest_id) IN
       Stage(e, <<Call("place_final_order", "stage", e, e.nx, "-")>>,
             complete_order_flow("place_final_order", e.ok), TRUE)
    /\ UNCHANGED <<flow, size, sku, verified, available_sizes, lastCart, lastGuest,
                   lastDecision, user_agent, args, ret>>

Next ==
    \/ FC_main
    \/ FC_step_initialize_session
    \/ FC_step_add_to_cart
    \/ FC_step_checkout_as_guest
    \/ FC_step_submit_shipping_info
    \/ FC_step_submit_payment_info
    \/ FC_step_place_order
    \/ IM_main
    \/ IM_step_test_connection
    \/ IM_step_add_to_cart_v2
    \/ IM_get_fresh_cookies_interactive
    \/ IM_step_get_cart_info
    \/ EC_main
    \/ EC_step_lookup
    \/ EC_step_check_product_availability
    \/ EC_step_add_to_cart_real
    \/ EC_step_get_cart_status
    \/ EC_step_set_shipping_address
    \/ EC_print_cart_summary
    \/ OP_main
    \/ OP_step_submit_user_info
    \/ OP_step_verify_shipping_address
    \/ OP_step_set_shipping_address
    \/ OP_step_get_updated_cart_with_shipping
    \/ OP_step_submit_payment_info
    \/ OP_step_place_final_order

Spec == Init /\ [][Next]_vars

\* a step the program takes by itself or on the return of session.get or
\* session.post, as opposed to the return of input() in
\* get_fresh_cookies_interactive, which takes the user
Returns == Next /\ pc # "get_fresh_cookies_interactive"

\* every request returns a response or raises, and the interpreter goes on
\* from there; nothing makes the user press Enter
SpecLive == Init /\ [][Next]_vars /\ WF_vars(Returns)

-----------------------------------------------------------------------------
(* The executors by what they do.                                          *)

\* the executors that send the add-to-cart request
AddToCartExecutors == {"add_to_cart", "add_to_cart_real", "add_to_cart_v2"}

\* the executors each orchestrator invokes, in the order of its body
OrchestratorStages ==
    [FC |-> <<"initialize_session", "add_to_cart", "checkout_as_guest",
              "submit_shipping_info", "submit_payment_info", "place_order">>,
     OP |-> <<"submit_user_info", "verify_shipping_address", "set_shipping_address",
              "get_updated_cart_with_shipping", "submit_payment_info",
              "place_final_order">>,
     EC |-> <<"check_product_availability", "add_to_cart_real", "get_cart_status",
              "set_shipping_address">>]

-----------------------------------------------------------------------------
(* Two objects at once.  In SpecTwo every variable that holds a field or a *)
(* local of the running object (flow, pc, cart_id, guest_id, verified,     *)
(* result) is a function of the instance, and calls keeps the latest       *)
(* invocation of each instance, the newest first.  The steps of the two    *)
(* instances interleave freely; a                                          *)
(* step is one executor invocation of one instance's orchestrator.  The    *)
(* server keeps one cart per session: the identifiers it sends to an       *)
(* instance are that instance's own.                                       *)

Instances == {1, 2}

\* the identifiers the server gives to the session of instance i
OwnCartIds(i) == {CartIdAt(k) : k \in {n \in 1..3 : n <= MaxIds /\ n % 2 = i % 2}}
OwnGuestIds(i) == {GuestIdAt(k) : k \in {n \in 1..3 : n <= MaxIds /\ n % 2 = i % 2}}

\* the responses of S the server may give to instance i
AnswersTo(i, S) ==
    {r \in S : /\ Get(r.cartId) \in {"None"} \cup OwnCartIds(i)
               /\ UserId(r) \in {"None"} \cup OwnGuestIds(i)}

\* the responses of the endpoint an executor calls
Responses(ex) ==
    CASE ex \in AddToCartExecutors -> CartAddResponses
      [] ex \in {"checkout_as_guest", "get_cart_status", "print_cart_summary",
                 "get_updated_cart_with_shipping"} -> CartResponses
      [] ex = "check_product_availability" -> ProductResponses
      [] ex = "verify_shipping_address" -> VerifyResponses
      [] ex = "place_order" -> OrderResponses
      [] OTHER -> StatusResponses

\* the responses to the request of the executor nested in ex
NestedResponses(ex) ==
    CASE ex = "add_to_cart" -> StatusResponses
      [] ex = "checkout_as_guest" -> CartResponses
      [] OTHER -> {Plain}

\* variant: cart_id and guest_id are attributes of the class, shared by its
\* instances
setattr_class(field, i, v) == [j \in DOMAIN field |-> v]

\* self.<field> = v: cart_id and guest_id are created by __init__ as
\* attributes of the instance
setattr(field, i, v) == [field EXCEPT ![i] = v]

\* the executor an orchestrator invokes at `stage`, applied to the fields c, g
\* of its object; va is complete_order_flow's verified_address
Executor(class, stage, va, r1, r2, c, g) ==
    CASE class = "FC" ->
           (CASE stage = "initialize_session" -> FC_initialize_session(r2, c, g)
              [] stage = "add_to_cart" -> FC_add_to_cart(r1, r2, c, g)
              [] stage = "checkout_as_guest" -> FC_checkout_as_guest(r1, r2, c, g)
              [] stage = "submit_shipping_info" -> FC_submit_shipping_info(r2, c, g)
              [] stage = "submit_payment_info" -> FC_submit_payment_info(r2, c, g)
              [] stage = "place_order" -> FC_place_order(r2, c, g))
      [] class = "EC" ->
           (CASE stage = "check_product_availability" ->
                     EC_check_product_availability(r2, c, g)
              [] stage = "add_to_cart_real" -> EC_add_to_cart_real(r2, c, g)
              [] stage = "get_cart_status" -> EC_get_cart_status(r2, c, g)
              [] stage = "set_shipping_address" -> EC_set_shipping_address(r2, c, g)
              [] stage = "print_cart_summary" -> EC_get_cart_status(r2, c, g))
      [] class = "OP" ->
           (CASE stage = "submit_user_info" -> OP_submit_user_info(r2, c, g)
              [] stage = "verify_shipping_address" ->
                     OP_verify_shipping_address(r2, c, g)
              [] stage = "set_shipping_address" ->
                     OP_set_shipping_address(va, r2, c, g)
              [] stage = "get_updated_cart_with_shipping" ->
                     OP_get_updated_cart_with_shipping(r2, c, g)
              [] stage = "submit_payment_info" -> OP_submit_payment_info(c, g)
              [] stage = "place_final_order" -> OP_place_final_order(c, g))

\* the orchestrator's next stage
Orchestrator(class, stage, ok) ==
    CASE class = "FC" -> complete_checkout_flow(stage, ok)
      [] class = "EC" -> (IF stage = "print_cart_summary" THEN "done"
                          ELSE quick_add_and_checkout(stage, ok))
      [] class = "OP" -> complete_order_flow(stage, ok)

InitTwo ==
    /\ flow = [i \in Instances |-> "none"]
    /\ pc = [i \in Instances |-> "main"]
    /\ cart_id = [i \in Instances |-> "None"]
    /\ guest_id = [i \in Instances |-> "None"]
    /\ verified = [i \in Instances |-> "None"]
    /\ result = [i \in Instances |-> "running"]
    /\ size = "-"
    /\ sku = "-"
    /\ available_sizes = << >>
    /\ calls = << >>
    /\ lastCart = "None"
    /\ lastGuest = "None"
    /\ lastDecision = "none"
    /\ allMocked = TRUE
    /\ user_agent = "-"
    /\ args = << >>
    /\ ret = "-"

\* an object is constructed and its orchestrator is entered
Two_main ==
    /\ \E i \in Instances :
         /\ flow[i] = "none"
         /\ \E class \in {"FC", "EC", "OP"} :
              /\ flow' = [flow EXCEPT ![i] = class]
              /\ pc' = [pc EXCEPT ![i] = OrchestratorStages[class][1]]
    /\ UNCHANGED <<cart_id, guest_id, size, sku, verified, available_sizes, result, calls,
                   lastCart, lastGuest, lastDecision, allMocked, user_agent, args, ret>>

\* the orchestrator of one instance invokes its next executor
Two_step ==
    /\ \E i \in Instances :
         /\ flow[i] # "none" /\ pc[i] # "done"
         /\ \E r1 \in AnswersTo(i, NestedResponses(pc[i])),
               r2 \in AnswersTo(i, Responses(pc[i])) :
              LET e == Executor(flow[i], pc[i], verified[i], r1, r2,
                                cart_id[i], guest_id[i])
                  next == Orchestrator(flow[i], pc[i], e.ok) IN
              /\ cart_id' = setattr(cart_id, i, e.cart)
              /\ guest_id' = setattr(guest_id, i, e.guest)
              /\ verified' = [verified EXCEPT
                                ![i] = IF pc[i] = "verify_shipping_address"
                                       THEN e.out ELSE @]
              /\ pc' = [pc EXCEPT ![i] = next]
              /\ result' = [result EXCEPT
                              ![i] = IF pc[i] = "print_cart_summary" THEN @
                                     ELSE Returned(e.ok, next)]
              /\ calls' = <<[inst |-> i, ex |-> pc[i], ok |-> e.ok, st |-> e.st]>>
                             \o SelectSeq(calls, LAMBDA k : k.inst # i)
    /\ UNCHANGED <<flow, size, sku, available_sizes, lastCart, lastGuest, lastDecision,
                   allMocked, user_agent, args, ret>>

NextTwo ==
    \/ Two_main
    \/ Two_step

SpecTwo == InitTwo /\ [][NextTwo]_vars

-----------------------------------------------------------------------------
(* The headers of a request.                                               *)

\* header names as the three layers spell them: _setup_session of the order
\* placer writes 'Accept', the tracking and step dictionaries 'accept'
HeaderKeys == {"Accept", "accept", "X-Api-Lang", "x-api-lang"}

HeaderValues == {"application/json", "undefined"}

\* str.lower() of a header name, as CaseInsensitiveDict keys its entries
lower(k) ==
    CASE k = "Accept" -> "accept"
      [] k = "X-Api-Lang" -> "x-api-lang"
      [] OTHER -> k

Dicts(keys) == UNION {[D -> HeaderValues] : D \in SUBSET keys}

\* session.headers holds one entry per name, whatever its spelling
SessionHeaders ==
    {d \in Dicts(HeaderKeys) :
        \A k1, k2 \in DOMAIN d : lower(k1) = lower(k2) => k1 = k2}

\* the dictionaries of _get_tracking_headers and of headers.update({...}):
\* every key is a lower-case literal
LiteralHeaders == Dicts({k \in HeaderKeys : lower(k) = k})

\* variant: the entries already in the dictionary are kept
update_setdefault(d, e) ==
    [k \in DOMAIN d \cup DOMAIN e |-> IF k \in DOMAIN d THEN d[k] ELSE e[k]]

\* dict.update: headers.update({...})
update(d, e) ==
    [k \in DOMAIN d \cup DOMAIN e |-> IF k \in DOMAIN e THEN e[k] ELSE d[k]]

\* requests merges headers= into a CaseInsensitiveDict copy of
\* session.headers: an entry of the request replaces the session's entry of
\* the same name in any spelling
merge_setting(request_setting, session_setting) ==
    LET names == {lower(k) : k \in DOMAIN request_setting \cup DOMAIN session_setting}
        key(d, n) == CHOOSE k \in DOMAIN d : lower(k) = n IN
    [n \in names |->
        IF \E k \in DOMAIN request_setting : lower(k) = n
        THEN request_setting[key(request_setting, n)]
        ELSE session_setting[key(session_setting, n)]]

\* headers = self._get_tracking_headers(); headers.update({...});
\* self.session.post(url, headers=headers, ...)
request_headers(session, tracking, step) ==
    merge_setting(update(tracking, step), session)

\* the state of an object no driver runs on
Idle ==
    /\ cart_id = "None"
    /\ guest_id = "None"
    /\ size = "-"
    /\ sku = "-"
    /\ verified = "None"
    /\ available_sizes = << >>
    /\ result = "running"
    /\ calls = << >>
    /\ lastCart = "None"
    /\ lastGuest = "None"
    /\ lastDecision = "none"
    /\ allMocked = TRUE
    /\ user_agent = "-"

InitHeaders ==
    /\ Idle
    /\ flow = "session.request"
    /\ pc = "main"
    /\ args \in [session : SessionHeaders, tracking : LiteralHeaders,
                  step : LiteralHeaders]
    /\ ret = "-"

\* an executor builds its headers and sends its request
session_request ==
    /\ flow = "session.request" /\ pc = "main"
    /\ pc' = "done"
    /\ ret' = request_headers(args.session, args.tracking, args.step)
    /\ UNCHANGED <<flow, cart_id, guest_id, size, sku, verified, available_sizes,
                   result, calls, lastCart, lastGuest, lastDecision, allMocked,
                   user_agent, args>>

NextHeaders == session_request

SpecHeaders == InitHeaders /\ [][NextHeaders]_vars

-----------------------------------------------------------------------------
(* adyen_encryption.py.  A string is the sequence of its pieces: a literal  *)
(* of the code is one piece, a drawn character is one piece.                *)

\* the drawn part of a field is cut to at most this many characters
MaxRandomLen == 2

\* self.adyen_prefix
adyen_prefix == <<"adyenjs_0_1_25$">>

\* two of the 65 characters secrets.choice draws from
chars == {"A", "="}

Shorter(a, b) == IF a < b THEN a ELSE b

\* _generate_mock_encrypted_string(length): every string of drawn characters
generate_mock_encrypted_string(length) ==
    [1..Shorter(length, MaxRandomLen) -> chars]

\* the card dictionaries a caller may pass: any of the fields may be missing
CardFields == {"cardNumber", "expiryMonth", "cvc"}

CardData == UNION {[D -> {"4111111111111111", "12"}] : D \in SUBSET CardFields}

\* one field of the mock payload with n drawn characters
MockField(n) ==
    {adyen_prefix \o <<"MEEwEAYHKoZIzj0CAQYFK4EEACIDYgAE">> \o drawn :
        drawn \in generate_mock_encrypted_string(n)}

\* variant: the card number is returned as it was given
mock_encrypt_card_data_plain(card_data) ==
    [encryptedCardNumber : {<<"4111111111111111">>},
     encryptedExpiryMonth : MockField(32),
     encryptedExpiryYear : MockField(32),
     encryptedSecurityCode : MockField(32)]

\* MockAdyenEncryption.mock_encrypt_card_data: the payloads it may return;
\* card_data is not read
mock_encrypt_card_data(card_data) ==
    [encryptedCardNumber : MockField(64),
     encryptedExpiryMonth : MockField(32),
     encryptedExpiryYear : MockField(32),
     encryptedSecurityCode : MockField(32)]

\* encrypt_payment_data: the values it may return
encrypt_payment_data(card_data, use_mock) ==
    IF use_mock THEN mock_encrypt_card_data(card_data) ELSE {"None"}

\* str.startswith
startswith(str, prefix) ==
    Len(prefix) <= Len(str) /\ SubSeq(str, 1, Len(prefix)) = prefix

InitEncrypt ==
    /\ Idle
    /\ flow = "encrypt_payment_data"
    /\ pc = "main"
    /\ args \in [card_data : CardData, use_mock : BOOLEAN]
    /\ ret = "-"

call_encrypt_payment_data ==
    /\ flow = "encrypt_payment_data" /\ pc = "main"
    /\ pc' = "done"
    /\ ret' \in encrypt_payment_data(args.card_data, args.use_mock)
    /\ UNCHANGED <<flow, cart_id, guest_id, size, sku, verified, available_sizes,
                   result, calls, lastCart, lastGuest, lastDecision, allMocked,
                   user_agent, args>>

NextEncrypt == call_encrypt_payment_data

SpecEncrypt == InitEncrypt /\ [][NextEncrypt]_vars

-----------------------------------------------------------------------------
(* test_order_placement.py: test_individual_steps.  ret is the results      *)
(* dictionary, verified the local of that name, calls the invocations the   *)
(* driver made (lvl "step").                                                *)

\* str(bool)
Str(b) == IF b THEN "True" ELSE "False"

\* results[key] = value
setitem(results, key, value) ==
    [k \in DOMAIN results \cup {key} |-> IF k = key THEN value ELSE results[k]]

\* results.get(key): None when the key is not set
get(results, key) == IF key \in DOMAIN results THEN results[key] ELSE "None"

\* the keys of the five steps before the final order
FiveSteps ==
    {"user_info", "address_verification", "shipping_address", "cart_update",
     "payment_prep"}

\* all([results.get('user_info'), ..., results.get('payment_prep')])
all_passed(results) == \A k \in FiveSteps : get(results, k) = "True"

\* order_placer.place_final_order(*positional): the method takes self only,
\* so a call with an argument raises TypeError before the body is entered
call_place_final_order(positional, c, g) ==
    IF positional = 0 THEN OP_place_final_order(c, g)
    ELSE Raise("TypeError", c, g, 0, -1)

InitSteps ==
    /\ Idle
    /\ flow = "test_individual_steps"
    /\ pc = "user_info"
    /\ args = << >>
    /\ ret = << >>

\* what a step of the driver leaves alone
StepFrame ==
    UNCHANGED <<flow, cart_id, guest_id, size, sku, available_sizes, result,
                lastCart, lastGuest, lastDecision, allMocked, user_agent, args>>

TS_step_user_info ==
    /\ flow = "test_individual_steps" /\ pc = "user_info"
    /\ \E r \in StatusResponses :
         LET e == OP_submit_user_info(r, cart_id, guest_id) IN
         /\ calls' = calls \o <<Call("submit_user_info", "step", e, e.nx, "user_info")>>
         /\ ret' = setitem(ret, "user_info", Str(e.ok))
    /\ pc' = "address_verification"
    /\ UNCHANGED verified
    /\ StepFrame

\* results['address_verification'] = verified is not None
TS_step_address_verification ==
    /\ flow = "test_individual_steps" /\ pc = "address_verification"
    /\ \E r \in VerifyResponses :
         LET e == OP_verify_shipping_address(r, cart_id, guest_id) IN
         /\ calls' = calls \o <<Call("verify_shipping_address", "step", e, e.nx,
                                     "shipping_address")>>
         /\ verified' = e.out
         /\ ret' = setitem(ret, "address_verification", Str(e.out # "None"))
    /\ pc' = "shipping_address"
    /\ StepFrame

\* if verified: ... else: results['shipping_address'] = False
TS_step_shipping_address ==
    /\ flow = "test_individual_steps" /\ pc = "shipping_address"
    /\ IF calls[Len(calls)].ok
       THEN \E r \in StatusResponses :
              LET e == OP_set_shipping_address(verified, r, cart_id, guest_id) IN
              /\ calls' = calls \o <<Call("set_shipping_address", "step", e, e.nx,
                                          verified)>>
              /\ ret' = setitem(ret, "shipping_address", Str(e.ok))
       ELSE /\ calls' = calls
            /\ ret' = setitem(ret, "shipping_address", "False")
    /\ pc' = "cart_update"
    /\ UNCHANGED verified
    /\ StepFrame

\* results['cart_update'] = cart is not None
TS_step_cart_update ==
    /\ flow = "test_individual_steps" /\ pc = "cart_update"
    /\ \E r \in CartResponses :
         LET e == OP_get_updated_cart_with_shipping(r, cart_id, guest_id) IN
         /\ calls' = calls \o <<Call("get_updated_cart_with_shipping", "step", e,
                                     e.nx, "-")>>
         /\ ret' = setitem(ret, "cart_update", Str(e.out # "None"))
    /\ pc' = "payment_prep"
    /\ UNCHANGED verified
    /\ StepFrame

\* results['payment_prep'] = payment_data is not None, payment_data being
\* the bool submit_payment_info returned
TS_step_payment_prep ==
    /\ flow = "test_individual_steps" /\ pc = "payment_prep"
    /\ LET e == OP_submit_payment_info(cart_id, guest_id) IN
       /\ calls' = calls \o <<Call("submit_payment_info", "step", e, e.nx,
                                   "payment_info")>>
       /\ ret' = setitem(ret, "payment_prep", "True")
    /\ pc' = "final_order"
    /\ UNCHANGED verified
    /\ StepFrame

\* the final order: skipped unless the five results are all true and the user
\* answers y; the TypeError of the call is caught by the driver's own handler
TS_step_final_order ==
    /\ flow = "test_individual_steps" /\ pc = "final_order"
    /\ \E proceed \in {"y", "n"} :
         IF all_passed(ret) /\ proceed = "y"
         THEN LET e == except_Exception(
                           call_place_final_order(1, cart_id, guest_id)) IN
              /\ calls' = calls \o <<Call("place_final_order", "step", e, e.nx,
                                          "payment_data")>>
              /\ ret' = setitem(ret, "final_order",
                                IF e.exc # "none" THEN "False"
                                ELSE Str(e.out # "None"))
         ELSE /\ calls' = calls
              /\ ret' = setitem(ret, "final_order", "skipped")
    /\ pc' = "done"
    /\ UNCHANGED verified
    /\ StepFrame

NextSteps ==
    \/ TS_step_user_info
    \/ TS_step_address_verification
    \/ TS_step_shipping_address
    \/ TS_step_cart_update
    \/ TS_step_payment_prep
    \/ TS_step_final_order

SpecSteps == InitSteps /\ [][NextSteps]_vars

-----------------------------------------------------------------------------
(* verify_shipping_address called on its own: args holds the address given  *)
(* and the response the server sends, ret the object returned.              *)

\* the address dictionaries a caller may pass; a missing key reads as None
\* and goes into the payload as null
Addresses == [state : {"VA", "None"}, zipCode : {"23970-5627", "None"}]

InitVerify ==
    /\ Idle
    /\ flow = "verify_shipping_address"
    /\ pc = "main"
    /\ args \in [address : Addresses, response : VerifyResponses]
    /\ ret = "-"

call_verify_shipping_address ==
    /\ flow = "verify_shipping_address" /\ pc = "main"
    /\ pc' = "done"
    /\ ret' = OP_verify_shipping_address(args.response, cart_id, guest_id).out
    /\ UNCHANGED <<flow, cart_id, guest_id, size, sku, verified, available_sizes,
                   result, calls, lastCart, lastGuest, lastDecision, allMocked,
                   user_agent, args>>

NextVerify == call_verify_shipping_address

SpecVerify == InitVerify /\ [][NextVerify]_vars

-----------------------------------------------------------------------------
(* check_product_availability called on its own: args holds the sku passed, *)
(* the size the caller has in hand (quick_add_and_checkout keeps it for     *)
(* add_to_cart_real and does not pass it) and the response the server       *)
(* sends; ret is the object returned, "None" or the payload with the key    *)
(* available_sizes written into it.                                         *)

InitAvailability ==
    /\ Idle
    /\ flow = "check_product_availability"
    /\ pc = "main"
    /\ args \in [sku : Skus, size : SizeIds, response : ProductResponses]
    /\ ret = [out |-> "-", available_sizes |-> << >>]

call_check_product_availability ==
    /\ flow = "check_product_availability" /\ pc = "main"
    /\ pc' = "done"
    /\ LET e == EC_check_product_availability(args.response, cart_id, guest_id)
       IN ret' = IF e.ok
                 THEN [out |-> "product_data",
                       available_sizes |-> AvailableSizes(args.response.sizes)]
                 ELSE [out |-> "None", available_sizes |-> << >>]
    /\ UNCHANGED <<flow, cart_id, guest_id, size, sku, verified, available_sizes,
                   result, calls, lastCart, lastGuest, lastDecision, allMocked,
                   user_agent, args>>

NextAvailability == call_check_product_availability

SpecAvailability == InitAvailability /\ [][NextAvailability]_vars

-----------------------------------------------------------------------------
(* Properties.                                                             *)

TypeOK ==
    /\ flow \in {"none", "FC", "IM", "EC", "OP"}
    /\ cart_id \in {"None"} \cup ServerCartIds
    /\ guest_id \in {"None"} \cup ServerGuestIds
    /\ result \in {"running", "True", "False"}

Orchestrated == flow \in {"FC", "OP", "EC"}

\* the executors that first invoke another executor
CompositeExecutors == {"add_to_cart", "add_to_cart_v2", "checkout_as_guest"}

\* the executors whose result depends on the response's status alone
StatusOnlyExecutors ==
    {"initialize_session", "test_connection", "submit_shipping_info",
     "submit_payment_info", "submit_user_info", "set_shipping_address"}

InSeq(x, q) == \E i \in 1..Len(q) : q[i] = x

C2_CartIdKept ==
    (\A i \in 1..Len(calls) : calls[i].ok) => cart_id = lastCart

(* C3: once guest_id is not None, no step sets it back to None.            *)
C3_GuestIdKept == [][guest_id # "None" => guest_id' # "None"]_vars

(* C4: when check_product_availability succeeded and the requested size is *)
(* not among the sizes with stock > 0, the run has failed there and        *)
(* add_to_cart_real is never invoked.                                      *)
C4_OutOfStockAborts ==
    (/\ flow = "EC"
     /\ Len(calls) >= 1
     /\ calls[1].ex = "check_product_availability" /\ calls[1].ok
     /\ ~InSeq(size, available_sizes))
    => /\ pc = "done" /\ result = "False"
       /\ \A i \in 1..Len(calls) : calls[i].ex # "add_to_cart_real"

(* C5: when the verification response carries a decision other than        *)
(* accepted, set_shipping_address is never invoked in that run.            *)
C5_RejectedAddressStops ==
    (flow = "OP" /\ lastDecision \notin {"none", "Accepted", "accepted"})
    => /\ pc = "done" /\ result = "False"
       /\ \A i \in 1..Len(calls) : calls[i].ex # "set_shipping_address"

(* C6: a run whose failing exchange returned 403 ends with the outcome     *)
(* AuthExpired, an outcome other than the one of any other failure.        *)
C6_AuthExpiredSurfaced ==
    (/\ Orchestrated /\ pc = "done"
     /\ Len(calls) >= 1
     /\ ~calls[Len(calls)].ok /\ calls[Len(calls)].lvl = "stage"
     /\ calls[Len(calls)].st = 403)
    => result = "AuthExpired"

(* C7: when the add-to-cart request is answered 403, the run ends with the *)
(* outcome AuthExpired and no executor is invoked after add to cart.       *)
C7_AddToCart403 ==
    \A i \in 1..Len(calls) :
        (/\ pc = "done"
         /\ calls[i].ex \in AddToCartExecutors
         /\ calls[i].own = 1 /\ calls[i].st = 403)
        => result = "AuthExpired" /\ i = Len(calls)

(* C8: in complete_checkout_flow, when every exchange is answered 2xx with *)
(* a cart object whose cartId is CART-1, the run does not fail, and from   *)
(* the completion of add_to_cart on cart_id is CART-1.                     *)
C8_EndToEnd ==
    (flow = "FC" /\ allMocked)
    => /\ result # "False"
       /\ pc = "done" => result = "True"
       /\ (\E i \in 1..Len(calls) : calls[i].ex = "add_to_cart") => cart_id = "CART-1"

C10_Success2xx ==
    \A i \in 1..Len(calls) :
        calls[i].own = 1 =>
            /\ calls[i].st \notin 200..299 => ~calls[i].ok
            /\ (calls[i].ex \in StatusOnlyExecutors /\ calls[i].st \in 200..299)
                  => calls[i].ok

\* the executors that place the order
PlaceOrderExecutors == {"place_order", "place_final_order"}

(* C11: place_order and place_final_order are never invoked while cart_id  *)
(* is None: cart_id is not None when the driver is about to invoke one of  *)
(* them, and, since neither assigns it, once one of them has run.          *)
C11_PlaceOrderHasCart ==
    (\/ pc \in PlaceOrderExecutors
     \/ \E i \in 1..Len(calls) : calls[i].ex \in PlaceOrderExecutors)
    => cart_id # "None"

(* C12: submit_user_info is invoked only after a checkout_as_guest that    *)
(* returned True, with guest_id not None; and once checkout_as_guest has   *)
(* returned True, guest_id is not None.                                    *)
C12_GuestAuthenticated ==
    /\ \A i \in 1..Len(calls) :
         calls[i].ex = "submit_user_info" =>
            /\ \E j \in 1..(i - 1) : calls[j].ex = "checkout_as_guest" /\ calls[j].ok
            /\ guest_id # "None"
    /\ \A i \in 1..Len(calls) :
         (calls[i].ex = "checkout_as_guest" /\ calls[i].ok) => guest_id # "None"

\* the stages of section 4.3 of the specification, in its order
TenStages ==
    <<"InitializeSession", "CheckAvailability", "AddToCart", "FetchCart",
      "GuestCheckout", "SubmitContact", "VerifyAddress", "SetShippingAddress",
      "SubmitPayment", "PlaceOrder">>

\* the stage an executor implements, by the endpoint it calls
StageOf(ex) ==
    CASE ex \in {"initialize_session", "test_connection"} -> "InitializeSession"
      [] ex \in {"get_product_details", "check_product_availability"} -> "CheckAvailability"
      [] ex \in AddToCartExecutors -> "AddToCart"
      [] ex \in {"get_updated_cart", "get_cart_status", "get_cart_info",
                 "get_updated_cart_with_shipping"} -> "FetchCart"
      [] ex = "checkout_as_guest" -> "GuestCheckout"
      [] ex = "submit_user_info" -> "SubmitContact"
      [] ex = "verify_shipping_address" -> "VerifyAddress"
      [] ex \in {"submit_shipping_info", "set_shipping_address"} -> "SetShippingAddress"
      [] ex = "submit_payment_info" -> "SubmitPayment"
      [] ex \in PlaceOrderExecutors -> "PlaceOrder"

\* the executors the orchestrator itself invoked, in order
StageCalls == SelectSeq(calls, LAMBDA k : k.lvl = "stage")

\* the executors invoked during the orchestrator's run, nested ones included
RunCalls == SelectSeq(calls, LAMBDA k : k.lvl # "summary")

Names(q) == [i \in 1..Len(q) |-> q[i].ex]

IsPrefix(p, q) == Len(p) <= Len(q) /\ \A i \in 1..Len(p) : p[i] = q[i]

AcceptedCandidates == {"suggested[0]", "suggested[0]:region=null"}

(* C14: the executor that sets the shipping address is only ever invoked   *)
(* with the first suggested address of a verification response whose       *)
(* decision is Accepted, never with the address object its caller holds.   *)
C14_VerifiedAddressOnly ==
    \A i \in 1..Len(calls) :
        StageOf(calls[i].ex) = "SetShippingAddress" =>
            /\ calls[i].arg \in AcceptedCandidates
            /\ lastDecision = "Accepted"

(* C15: no exception leaves an executor.  Whatever its try block raises    *)
(* (the request fails in transport, response.json() fails on the body, a   *)
(* field of the response or of the argument is missing where it is         *)
(* dereferenced), the executor returns, and what it returns is falsy.      *)
C15_NoExceptionEscapes ==
    \A i \in 1..Len(calls) :
        /\ ~calls[i].esc
        /\ calls[i].exc # "none" => ~calls[i].ok

\* set_shipping_address raised on its argument before sending anything, and
\* complete_order_flow went on to return False
C15_Witness ==
    /\ flow = "OP" /\ pc = "done" /\ result = "False"
    /\ \E i \in 1..Len(calls) :
         /\ calls[i].ex = "set_shipping_address"
         /\ calls[i].exc = "AttributeError" /\ calls[i].own = 0

(* C16: an executor whose own request ends in a transport fault (a timeout *)
(* or a connection error) or is answered with a body that is not JSON      *)
(* returns a falsy value, and when the driver invoked it the run is over   *)
(* and has returned False, for a timeout as for any other fault.           *)
C16_NetworkFaultAborts ==
    \A i \in 1..Len(calls) :
        LET k == calls[i] IN
        (k.own = 1 /\ (k.st = 0 \/ k.body = "bad")) =>
            /\ ~k.ok
            /\ k.lvl = "stage" => pc = "done" /\ result = "False"
            /\ k.st = 0 => k.exc \in TransportFaults

(* C17: a step whose executor returns a falsy value leaves cart_id and     *)
(* guest_id as they were before the step.                                  *)
C17_FailureKeepsIds ==
    [][(Len(calls') > Len(calls) /\ ~calls'[Len(calls')].ok)
         => (cart_id' = cart_id /\ guest_id' = guest_id)]_vars

C19_SessionFirst ==
    \A i \in 1..Len(calls) :
        (calls[i].own > 0 /\ StageOf(calls[i].ex) # "InitializeSession") =>
            \E j \in 1..(i - 1) :
                StageOf(calls[j].ex) = "InitializeSession" /\ calls[j].ok

(* C20: an add-to-cart executor sends its request only after an executor   *)
(* that looks the product up has returned a truthy payload for the same    *)
(* sku earlier in the run; and when the add-to-cart executor returns a     *)
(* truthy value, cart_id is the cartId of the response it parsed (None     *)
(* when that response carries none).                                       *)
C20_CheckedBeforeAdd ==
    \A i \in 1..Len(calls) :
        calls[i].ex \in AddToCartExecutors =>
            /\ calls[i].own = 1 =>
                 \E j \in 1..(i - 1) :
                    /\ StageOf(calls[j].ex) = "CheckAvailability"
                    /\ calls[j].ok
                    /\ calls[j].arg = calls[i].arg
            /\ (calls[i].ok /\ i = Len(calls)) => cart_id = calls[i].rcart

\* add_to_cart has just stored the cartId of the response to its request,
\* sent after get_product_details found the product
C20_Witness ==
    /\ flow = "FC" /\ pc = "checkout_as_guest"
    /\ Len(calls) = 3
    /\ calls[2].ex = "get_product_details" /\ calls[2].ok /\ calls[2].arg = sku
    /\ calls[3].ex = "add_to_cart" /\ calls[3].ok /\ calls[3].own = 1
    /\ calls[3].arg = sku /\ calls[3].rcart = "CART-2" /\ cart_id = "CART-2"

(* C21: once the caller has given an empty size or sku, no executor sends  *)
(* a request: every invocation that follows performs no exchange.          *)
C21_IncompleteRejected ==
    [][(size = "" \/ sku = "") => \A i \in (Len(calls) + 1)..Len(calls') :
                                       calls'[i].nx = 0]_vars

(* C22: after a seeding that found no user agent in the configuration the  *)
(* object is not usable: none of its executors issues a request.           *)
C22_NoUserAgentUnusable ==
    user_agent \in {"python-requests", "getattr default"}
        => \A i \in 1..Len(calls) : calls[i].nx = 0


\* the last executor an orchestrator of instance i invoked returned a falsy
\* value and the orchestrator returned False for it
FailedRun(i, k) ==
    /\ pc[i] = "done" /\ result[i] # "True"
    /\ k.inst = i /\ ~k.ok

(* C23: two runs that failed at different stages, or on different answers  *)
(* to the failing stage's request, end with different outcomes.            *)
C23_OutcomeNamesFailure ==
    \A m, n \in 1..Len(calls) :
        (/\ FailedRun(1, calls[m]) /\ FailedRun(2, calls[n])
         /\ (calls[m].ex # calls[n].ex \/ calls[m].st # calls[n].st))
        => result[1] # result[2]

\* the fields of a payment dictionary that hold card data in the clear
RawCardFields == {"cardNumber", "expiryMonth", "expiryYear", "cvv"}

(* C24: the body of a payment request an executor sends holds none of the  *)
(* caller's card fields in the clear.                                      *)
C24_PaymentEncrypted ==
    \A i \in 1..Len(calls) :
        (/\ calls[i].ex = "submit_payment_info" /\ calls[i].own = 1
         /\ calls[i].arg = "payment_info")
        => DOMAIN FC_payment_json(payment_info) \cap RawCardFields = {}

\* the executors whose request is sent without headers=: session.get(url)
Untracked == {"initialize_session", "test_connection"}

\* _get_tracking_headers() as called for the n-th request of the run.
\* ImprovedFootlockerCheckout returns literals (and no x-fl-request-id); the
\* other three classes draw the identifiers with random.choice, 8 to 32 hex
\* digits each, taken here as a value no other call of the run draws
get_tracking_headers(class, n) ==
    IF class = "IM"
    THEN [trace |-> <<"aa36ef94772156c118a3e81eed5f9c95", 0>>,
          span |-> <<"2eec2cd4a5037165", 0>>,
          request_id |-> <<"absent", 0>>,
          timestamp |-> <<"1751414023124", 0>>]
    ELSE [trace |-> <<"random", n>>,
          span |-> <<"random", n>>,
          request_id |-> <<"random", n>>,
          timestamp |-> <<"time.time()", n>>]

(* C25: every request of a run carries tracking headers, and no two        *)
(* requests of a run carry the same trace, span or request identifier.     *)
C25_TrackingPerCall ==
    \A i \in 1..Len(calls) :
        calls[i].own = 1 =>
            /\ calls[i].ex \notin Untracked
            /\ get_tracking_headers(flow, i).request_id[1] # "absent"
            /\ \A j \in 1..Len(calls) :
                  (j # i /\ calls[j].own = 1 /\ calls[j].ex \notin Untracked) =>
                      /\ get_tracking_headers(flow, i).trace
                            # get_tracking_headers(flow, j).trace
                      /\ get_tracking_headers(flow, i).span
                            # get_tracking_headers(flow, j).span

(* C26: an executor whose own request met a transport fault or a status     *)
(* outside 200..299 returns a falsy value having sent that request once,    *)
(* and no driver invokes again an executor that returned a falsy value to   *)
(* it.                                                                      *)
C26_NoRetry ==
    /\ \A i \in 1..Len(calls) :
          LET k == calls[i] IN
          (k.own >= 1 /\ k.st \notin 200..299) =>
              /\ ~k.ok
              /\ k.own = 1
              /\ k.nx = (IF k.ex \in CompositeExecutors THEN 2 ELSE 1)
    /\ \A i, j \in 1..Len(calls) :
          (i < j /\ calls[i].lvl = "stage" /\ ~calls[i].ok) =>
              calls[j].ex # calls[i].ex

\* submit_user_info met a timeout, returned False after its one request, and
\* the run ended there
C26_Witness ==
    /\ flow = "OP" /\ pc = "done" /\ result = "False"
    /\ Len(calls) = 1
    /\ calls[1].ex = "submit_user_info" /\ calls[1].exc = "Timeout"
    /\ calls[1].nx = 1

(* C27: when every request returns a response or a fault, a driver that     *)
(* has started reaches its end, whichever answers it gets.                  *)
C27_ReachesTerminal == (flow # "none") ~> (pc = "done")

\* the value a layer holds for header name n, "absent" when it holds none
Layer(d, n) ==
    IF \E k \in DOMAIN d : lower(k) = n
    THEN d[CHOOSE k \in DOMAIN d : lower(k) = n]
    ELSE "absent"

(* C28: the request carries, for each header name, the value of the step's  *)
(* own headers if they hold the name, else the value of the tracking        *)
(* headers if they hold it, else the value of the session's headers, and    *)
(* no header that none of the three holds.                                  *)
C28_HeaderLayers ==
    (flow = "session.request" /\ pc = "done") =>
        \A n \in {lower(k) : k \in HeaderKeys} :
            Layer(ret, n) =
                IF Layer(args.step, n) # "absent" THEN Layer(args.step, n)
                ELSE IF Layer(args.tracking, n) # "absent"
                     THEN Layer(args.tracking, n)
                     ELSE Layer(args.session, n)

\* 'accept' is in all three layers, spelled 'Accept' in the session's, and
\* 'x-api-lang' in the tracking and the step layer, each time with another
\* value in the step layer; the step's values were sent
C28_Witness ==
    /\ flow = "session.request" /\ pc = "done"
    /\ "Accept" \in DOMAIN args.session
    /\ args.session["Accept"] = "application/json"
    /\ Layer(args.tracking, "accept") = "application/json"
    /\ Layer(args.step, "accept") = "undefined"
    /\ Layer(args.tracking, "x-api-lang") = "undefined"
    /\ Layer(args.step, "x-api-lang") = "application/json"
    /\ ret = [n \in {"accept", "x-api-lang"} |->
                IF n = "accept" THEN "undefined" ELSE "application/json"]

(* C29: encrypt_payment_data called with use_mock true returns a payload of *)
(* exactly the fields encryptedCardNumber, encryptedExpiryMonth,            *)
(* encryptedExpiryYear and encryptedSecurityCode, each a string that starts *)
(* with the Adyen prefix, whatever the card dictionary; called with         *)
(* use_mock false it returns None.                                          *)
C29_MockPayloadShape ==
    (flow = "encrypt_payment_data" /\ pc = "done") =>
        IF args.use_mock
        THEN /\ DOMAIN ret = {"encryptedCardNumber", "encryptedExpiryMonth",
                              "encryptedExpiryYear", "encryptedSecurityCode"}
             /\ \A f \in DOMAIN ret : startswith(ret[f], adyen_prefix)
        ELSE ret = "None"

\* the mock payload was returned for a card dictionary without any field
C29_Witness ==
    /\ flow = "encrypt_payment_data" /\ pc = "done"
    /\ args.use_mock /\ DOMAIN args.card_data = {}
    /\ startswith(ret.encryptedCardNumber,
                  <<"adyenjs_0_1_25$", "MEEwEAYHKoZIzj0CAQYFK4EEACIDYgAE", "A", "=">>)

(* C30: complete_order_flow invokes submit_user_info,                      *)
(* verify_shipping_address, set_shipping_address,                          *)
(* get_updated_cart_with_shipping, submit_payment_info and                 *)
(* place_final_order in this order, none of them twice, and returns True   *)
(* exactly when it has invoked all six and each returned a truthy value;   *)
(* otherwise it returns False.                                             *)
C30_SixStepsInOrder ==
    flow = "OP" =>
        /\ IsPrefix(Names(calls), OrchestratorStages.OP)
        /\ \A i \in 1..Len(calls) : calls[i].lvl = "stage"
        /\ (result = "True") =
              (Len(calls) = 6 /\ \A i \in 1..6 : calls[i].ok)
        /\ (result = "False") =
              (\E i \in 1..Len(calls) : ~calls[i].ok)
        /\ (pc = "done") = (result # "running")

\* all six executors were invoked, each returned a truthy value, and the
\* flow returned True
C30_Witness ==
    /\ flow = "OP" /\ result = "True"
    /\ Names(calls) = OrchestratorStages.OP
    /\ \A i \in 1..Len(calls) : calls[i].ok

\* the invocations of executor ex the step-by-step driver made
StepCalls(ex) == {i \in 1..Len(calls) : calls[i].ex = ex}

\* the executors of the five steps before the final order
FiveExecutors ==
    {"submit_user_info", "verify_shipping_address", "set_shipping_address",
     "get_updated_cart_with_shipping", "submit_payment_info"}

(* C31: in test_individual_steps, set_shipping_address is invoked only      *)
(* after verify_shipping_address returned a non-empty object;               *)
(* place_final_order is invoked only after each of the five executors       *)
(* before it was invoked and returned a truthy value; and when one of the   *)
(* five was not invoked or returned a falsy value, the final-order result   *)
(* is 'skipped'.                                                            *)
C31_StepGuards ==
    flow = "test_individual_steps" =>
        /\ \A i \in StepCalls("set_shipping_address") :
             \E j \in StepCalls("verify_shipping_address") : j < i /\ calls[j].ok
        /\ \A i \in StepCalls("place_final_order") :
             \A ex \in FiveExecutors :
                \E j \in StepCalls(ex) : j < i /\ calls[j].ok
        /\ (pc = "done" /\ \E ex \in FiveExecutors :
                               \A j \in StepCalls(ex) : ~calls[j].ok)
             => ret["final_order"] = "skipped"

(* C32: when test_individual_steps has called place_final_order, the call   *)
(* raised no exception and the final-order result is true.                  *)
C32_FinalOrderCall ==
    flow = "test_individual_steps" =>
        \A i \in StepCalls("place_final_order") :
            /\ calls[i].exc = "none"
            /\ calls[i].ok
            /\ ret["final_order"] = "True"

\* the executors whose returned object an orchestrator, or the executor that
\* invoked them, tests with `if not`
TruthinessTested ==
    {"get_product_details", "check_product_availability", "add_to_cart_real",
     "get_updated_cart", "get_cart_status", "get_updated_cart_with_shipping",
     "place_order"}

(* C33: in the orchestrators, an executor whose returned object is tested   *)
(* for truthiness and whose request was answered 200 with the body {}       *)
(* returns a falsy value, and the run is over and has returned False.       *)
C33_EmptyBodyAborts ==
    Orchestrated =>
        \A i \in 1..Len(calls) :
            (/\ calls[i].ex \in TruthinessTested
             /\ calls[i].lvl \in {"stage", "nested"}
             /\ calls[i].own = 1 /\ calls[i].st = 200 /\ calls[i].body = "{}")
            => ~calls[i].ok /\ pc = "done" /\ result = "False"

(* C34: on a FootlockerOrderPlacer object cart_id and guest_id are None at  *)
(* every moment, whatever the server answers, and so is the cartId of the   *)
(* payload place_final_order builds.                                        *)
C34_OrderPlacerIdsNone ==
    flow = "OP" =>
        /\ cart_id = "None"
        /\ guest_id = "None"
        /\ OP_place_final_order_payload(cart_id).cartId = "None"

\* place_final_order ran after the server had sent a cartId in the cart it
\* returned to get_updated_cart_with_shipping
C34_Witness ==
    /\ flow = "OP" /\ pc = "done"
    /\ Len(calls) = 6
    /\ calls[4].ex = "get_updated_cart_with_shipping"
    /\ calls[4].rcart \in ServerCartIds
    /\ calls[6].ex = "place_final_order"
    /\ cart_id = "None"

\* the first four invocations of the run are the four steps that send a
\* request, each was answered 200, and the bodies verify_shipping_address
\* and get_updated_cart_with_shipping return were parsed and are not empty
\* (submit_user_info and set_shipping_address do not read the body)
FourNetworkStepsOk ==
    /\ Len(calls) >= 4
    /\ \A i \in 1..4 : calls[i].own = 1 /\ calls[i].st = 200
    /\ \A i \in {2, 4} : calls[i].body = "obj"

C36_VerifyReturns ==
    (flow = "verify_shipping_address" /\ pc = "done") =>
        LET r == args.response IN
        IF r.status = 200 /\ r.json = "obj"
        THEN IF r.decision = "Accepted" /\ r.suggested \notin {"absent", "empty"}
             THEN ret \in AcceptedCandidates
             ELSE ret = "verification_result"
        ELSE ret = "None"

\* a decision spelled 'accepted' came with a suggestion, and the whole
\* response was returned
C36_Witness ==
    /\ flow = "verify_shipping_address" /\ pc = "done"
    /\ args.response.status = 200
    /\ args.response.decision = "accepted"
    /\ args.response.suggested = "addr"
    /\ ret = "verification_result"

(* C37: quick_add_and_checkout given a product key that is not in           *)
(* config.PRODUCTS returns False and no executor has been invoked; when it  *)
(* has returned True it has invoked check_product_availability,             *)
(* add_to_cart_real, get_cart_status and set_shipping_address, in this      *)
(* order and once each, every one of them sent one request, and none of     *)
(* them is a payment or place-order executor.                               *)
C37_QuickAddStages ==
    flow = "EC" =>
        /\ (pc = "done" /\ sku = "-") => (result = "False" /\ calls = << >>)
        /\ result = "True" =>
              /\ Names(StageCalls) = OrchestratorStages.EC
              /\ \A i \in 1..Len(StageCalls) :
                    /\ StageCalls[i].ok
                    /\ StageCalls[i].nx = 1 /\ StageCalls[i].own = 1
                    /\ StageOf(StageCalls[i].ex) \notin {"SubmitPayment", "PlaceOrder"}

\* quick_add_and_checkout has just returned True
C37_Witness ==
    /\ flow = "EC" /\ pc = "print_cart_summary" /\ result = "True"
    /\ Len(calls) = 4
    /\ calls[4].ex = "set_shipping_address" /\ calls[4].st = 200

\* the ids of the entries of a size list that are in stock, in list order;
\* stock -1 stands for an entry with no stock key
InStockIds(sizes) ==
    LET kept == SelectSeq(sizes, LAMBDA s : s.stock >= 1)
    IN [i \in 1..Len(kept) |-> kept[i].id]

(* C38: check_product_availability answered 200 with a JSON object returns  *)
(* that payload, and its available_sizes is the list of the ids of the size *)
(* entries whose stock is greater than 0, in payload order, an entry        *)
(* without a stock key counting as 0; the size the caller asked for does    *)
(* not enter the result.                                                    *)
C38_AvailableSizes ==
    (/\ flow = "check_product_availability" /\ pc = "done"
     /\ args.response.status = 200 /\ args.response.json = "obj") =>
        /\ ret.out = "product_data"
        /\ ret.available_sizes = InStockIds(args.response.sizes)

(* C39: the checkout_as_guest stage of complete_checkout_flow starts from   *)
(* the cart_id that add_to_cart assigned and fetches the cart through       *)
(* get_updated_cart, then a second time itself when the first fetch         *)
(* returned a cart.  cart_id after the stage is the cartId of the first     *)
(* fetch's body when that body was read and the earlier value otherwise;    *)
(* the second fetch leaves it alone.  guest_id changes only when the second *)
(* fetch succeeded.  When the second fetch fails the stage fails and the    *)
(* run returns False, cart_id being the first fetch's cartId nonetheless.   *)
C39_GuestCheckoutFields ==
    [][(flow = "FC" /\ pc = "checkout_as_guest" /\ pc' # pc) =>
          LET n == Len(calls')
              added == calls[Len(calls)]
              first == calls'[n - 1]
              second == calls'[n] IN
          /\ n = Len(calls) + 2
          /\ added.ex = "add_to_cart" /\ added.ok /\ cart_id = added.rcart
          /\ first.ex = "get_updated_cart" /\ first.lvl = "nested" /\ first.own = 1
          /\ second.ex = "checkout_as_guest" /\ second.lvl = "stage"
          /\ second.own = (IF first.ok THEN 1 ELSE 0)
          /\ cart_id' = (IF first.rcart # "-" THEN first.rcart ELSE cart_id)
          /\ guest_id' # guest_id => (second.own = 1 /\ second.ok)
          /\ second.ok => guest_id' \in {"None", lastGuest'}
          /\ ~second.ok => (pc' = "done" /\ result' = "False" /\ guest_id' = guest_id)
      ]_vars

\* the second fetch failed after the first had replaced add_to_cart's cart_id
C39_Witness ==
    /\ flow = "FC" /\ pc = "done" /\ result = "False"
    /\ Len(calls) = 5
    /\ calls[3].ex = "add_to_cart" /\ calls[3].rcart = "CART-1"
    /\ calls[4].ex = "get_updated_cart" /\ calls[4].ok /\ calls[4].rcart = "CART-2"
    /\ calls[5].ex = "checkout_as_guest" /\ calls[5].own = 1 /\ ~calls[5].ok
    /\ cart_id = "CART-2"

====
